---- MODULE Spec2Model ----
(***************************************************************************)
(* Order placement (POST /orders), top-up review                           *)
(* (PUT /wallet/admin/topup-requests/:id), the admin product and order     *)
(* routes of the storefront backend and the guest cart of the storefront   *)
(* page.  The routes are modelled at the granularity of their awaits:      *)
(* every `await` on the document store is one atomic step, and the code    *)
(* that runs synchronously after it belongs to the same step.              *)
(*                                                                         *)
(* Money is counted in units of 1/100 cent, so that a price in cents times *)
(* 0.08 is a whole number of units.                                        *)
(*                                                                         *)
(* Store semantics (mongoose defaults): doc.save() writes the modified     *)
(* paths only, a scalar as $set of the in-memory value and an array push   *)
(* as $push; no version check is made on either.  findByIdAndUpdate is one *)
(* atomic update.  Any store call can reject, which lands in the handler's *)
(* catch block.                                                            *)
(***************************************************************************)
EXTENDS Integers, Sequences, FiniteSets, TLC

VARIABLES products, carts, wallets, orders, topups, co, ap, before, edits, guest

vars == <<products, carts, wallets, orders, topups, co, ap, before, edits, guest>>

\* the persisted collections
db == <<products, carts, wallets, orders, topups>>

----------------------------------------------------------------------------
\* Bounds of the model

NumCheckouts == 2
NumApprovals == 2
MaxRequests == 2
MaxTopups == 2
MaxEdits == 1

Checkouts == 1..NumCheckouts
Approvals == 1..NumApprovals

Users == {"u1", "u2"}
Products == {"p1", "p2"}

\* one dollar, in units of 1/100 cent
Dollar == 10000

----------------------------------------------------------------------------
\* Pure helpers

RECURSIVE SumAmounts(_)
SumAmounts(txs) ==
    IF txs = <<>> THEN 0
    ELSE txs[1].amount + SumAmounts(Tail(txs))

RECURSIVE SumItems(_)
SumItems(items) ==
    IF items = <<>> THEN 0
    ELSE items[1].price * items[1].quantity + SumItems(Tail(items))

\* String.prototype.trim on the two kinds of value the model sends
Trim(s) == IF s = " " THEN "" ELSE s

AddressFields == {"name", "address", "city", "postalCode", "phone"}

AddrOk == [f \in AddressFields |-> "a"]
AddrNoCity == [AddrOk EXCEPT !["city"] = ""]
Addresses == {AddrOk, AddrNoCity}

\* a name of blanks only
AddrBlankName == [AddrOk EXCEPT !["name"] = " "]
AllAddresses == Addresses \cup {AddrBlankName}

\* orders.js:25  !name || !address || !city || !postalCode || !phone
AddressMissing(addr) == \E f \in AddressFields : addr[f] = ""

TaxPercent == 8
FreeShippingOver == 50
FlatShipping == 10

\* variant: the tax is rounded down to whole cents
Tax_WholeCents(subtotal) == (((subtotal * TaxPercent) \div 100) \div 100) * 100

Tax(subtotal) == (subtotal * TaxPercent) \div 100

\* variant: free shipping from 50 on
Shipping_FromFifty(subtotal) ==
    IF subtotal >= FreeShippingOver * Dollar THEN 0 ELSE FlatShipping * Dollar

Shipping(subtotal) == IF subtotal > FreeShippingOver * Dollar THEN 0 ELSE FlatShipping * Dollar
\* variant: the tax is left out of the total
Total_NoTax(subtotal) == subtotal + Shipping(subtotal)

Total(subtotal) == subtotal + Tax(subtotal) + Shipping(subtotal)

\* variant: the price is the one the product had when the line was added
Populated_CartPrice(items) ==
    [k \in 1..Len(items) |->
        [product  |-> items[k].product,
         quantity |-> items[k].quantity,
         price    |-> IF items[k].product = "p1" THEN 25 * Dollar ELSE 10 * Dollar,
         stock    |-> products[items[k].product].stock,
         isActive |-> products[items[k].product].isActive]]

\* Cart.findOne(...).populate('items.product', 'name price stock isActive')
Populated(items) ==
    [k \in 1..Len(items) |->
        [product  |-> items[k].product,
         quantity |-> items[k].quantity,
         price    |-> products[items[k].product].price,
         stock    |-> products[items[k].product].stock,
         isActive |-> products[items[k].product].isActive]]

\* variant: availability is checked over the whole cart before any stock
FirstBadLine_AvailabilityFirst(items, k) ==
    LET inactive == {j \in k..Len(items) : ~items[j].isActive}
        short == {j \in k..Len(items) : items[j].stock < items[j].quantity}
        Least(S) == CHOOSE j \in S : \A i \in S : j <= i
    IN IF inactive # {} THEN Least(inactive)
       ELSE IF short # {} THEN Least(short)
       ELSE 0

\* the per-line loop of orders.js:46-67: index of the first line that is
\* rejected, 0 when every line passes
RECURSIVE FirstBadLine(_, _)
FirstBadLine(items, k) ==
    IF k > Len(items) THEN 0
    ELSE IF ~items[k].isActive \/ items[k].stock < items[k].quantity THEN k
    ELSE FirstBadLine(items, k + 1)

LineError(item) == IF ~item.isActive THEN "unavailable" ELSE "stock"

OrderItems(items) ==
    [k \in 1..Len(items) |->
        [product |-> items[k].product, quantity |-> items[k].quantity, price |-> items[k].price]]

----------------------------------------------------------------------------
\* The guest cart of the storefront page (Cart.tsx:208-311, CartProvider with
\* user = null).  A handler runs without an await on this branch, and the
\* page is rendered again before the next call, so a call is one step on
\* the items of the latest render.  guest.storage is the 'cart' key of
\* localStorage, guest.last the latest call.

MaxGuestOps == 4

\* the line pushed for a product that is not in the cart yet
GuestLine(p, q) == [product |-> p, quantity |-> q, price |-> 0]

NoStorage == [present |-> FALSE, items |-> <<>>]

\* localStorage.setItem('cart', JSON.stringify(items))
Stored(items) == [present |-> TRUE, items |-> items]

GuestStart == [items |-> <<>>, storage |-> NoStorage, ops |-> 0,
               last |-> [op |-> "mount", product |-> "p1", quantity |-> 0]]

\* items.findIndex(item => item.product._id === productId), 0 for -1
RECURSIVE FindIndex(_, _, _)
FindIndex(items, p, k) ==
    IF k > Len(items) THEN 0
    ELSE IF items[k].product = p THEN k
    ELSE FindIndex(items, p, k + 1)

\* variant: the line is always pushed
AddedTo_AlwaysPush(items, p, q) == Append(items, GuestLine(p, q))

\* the guest branch of addToCart
AddedTo(items, p, q) ==
    LET existingIndex == FindIndex(items, p, 1)
    IN IF existingIndex > 0
       THEN [items EXCEPT ![existingIndex].quantity = @ + q]
       ELSE Append(items, GuestLine(p, q))

\* the provider after a call
After(op, p, q, items, storage) ==
    [items |-> items, storage |-> storage, ops |-> guest.ops + 1,
     last |-> [op |-> op, product |-> p, quantity |-> q]]

addToCart(p, q) ==
    /\ guest.ops < MaxGuestOps
    /\ LET updatedItems == AddedTo(guest.items, p, q)
       IN guest' = After("add", p, q, updatedItems, Stored(updatedItems))
    /\ UNCHANGED <<db, co, ap, before, edits>>

updateQuantity(p, q) ==
    /\ guest.ops < MaxGuestOps
    /\ LET updatedItems == [k \in 1..Len(guest.items) |->
                               IF guest.items[k].product = p
                               THEN [guest.items[k] EXCEPT !.quantity = q]
                               ELSE guest.items[k]]
       IN guest' = After("update", p, q, updatedItems, Stored(updatedItems))
    /\ UNCHANGED <<db, co, ap, before, edits>>

removeFromCart(p) ==
    /\ guest.ops < MaxGuestOps
    /\ LET Keep(item) == item.product # p
           updatedItems == SelectSeq(guest.items, Keep)
       IN guest' = After("remove", p, 0, updatedItems, Stored(updatedItems))
    /\ UNCHANGED <<db, co, ap, before, edits>>

clearCart ==
    /\ guest.ops < MaxGuestOps
    /\ guest' = After("clear", "p1", 0, <<>>, NoStorage)
    /\ UNCHANGED <<db, co, ap, before, edits>>

\* the page is loaded again: the effect of Cart.tsx:213-224 reads the key
Reload ==
    /\ guest.ops < MaxGuestOps
    /\ guest' = After("mount", "p1", 0,
                      IF guest.storage.present THEN guest.storage.items ELSE <<>>,
                      guest.storage)
    /\ UNCHANGED <<db, co, ap, before, edits>>

----------------------------------------------------------------------------
\* Request records

CoIdle ==
    [pc |-> "idle", user |-> "u1", addr |-> AddrOk, items |-> <<>>, total |-> 0,
     balance |-> 0, orderNumber |-> 0, i |-> 0, status |-> 0, error |-> "", product |-> "p1"]

CoDone(c, status, error, product) ==
    [CoIdle EXCEPT !.pc = "done", !.user = c.user, !.status = status, !.error = error,
                   !.product = product]

ApIdle ==
    [pc |-> "idle", id |-> 0, status |-> "", notes |-> "", user |-> "u1", amount |-> 0,
     balance |-> 0, code |-> 0, error |-> ""]

ApDone(a, code, error) ==
    [ApIdle EXCEPT !.pc = "done", !.id = a.id, !.status = a.status, !.code = code,
                   !.error = error]

NoSnapshot == <<>>

InFlight ==
    Cardinality({r \in Checkouts : co[r].pc \notin {"idle", "done"}})
      + Cardinality({a \in Approvals : ap[a].pc \notin {"idle", "done"}})

Quiet == InFlight = 0

\* requests received so far; a request takes the first free slot of its kind
Received ==
    Cardinality({r \in Checkouts : co[r].pc # "idle"})
      + Cardinality({a \in Approvals : ap[a].pc # "idle"})

FreeCheckout(r) == co[r].pc = "idle" /\ \A q \in Checkouts : q < r => co[q].pc # "idle"
FreeApproval(a) == ap[a].pc = "idle" /\ \A q \in Approvals : q < a => ap[q].pc # "idle"

\* history: the collections as they were when the request that now runs
\* alone was received
Started == IF Quiet THEN db ELSE before

----------------------------------------------------------------------------
\* Initial state: two products, two users whose ledgers hold one earlier
\* top-up each, carts filled by earlier cart requests, no orders.

Line(p, q) == [product |-> p, quantity |-> q]

InitCarts ==
    {[u \in Users |-> <<Line("p1", 1)>>],
     [u \in Users |-> IF u = "u1" THEN <<Line("p1", 2), Line("p2", 1)>> ELSE <<>>]}
InitBalance == [u \in Users |-> IF u = "u1" THEN 100 * Dollar ELSE 37 * Dollar]

InitProducts ==
    [p \in Products |->
        IF p = "p1" THEN [price |-> 25 * Dollar, stock |-> 1, isActive |-> TRUE]
        ELSE [price |-> 10 * Dollar, stock |-> 1, isActive |-> TRUE]]

Tx(type, amount, order) == [type |-> type, amount |-> amount, order |-> order]

InitWallets ==
    [u \in Users |->
        [balance |-> InitBalance[u], transactions |-> <<Tx("topup", InitBalance[u], 0)>>]]

InitRequests ==
    /\ co = [r \in Checkouts |-> CoIdle]
    /\ ap = [a \in Approvals |-> ApIdle]
    /\ before = NoSnapshot
    /\ edits = 0
    /\ guest = GuestStart

Init ==
    /\ products = InitProducts
    /\ carts \in InitCarts
    /\ wallets = InitWallets
    /\ orders = <<>>
    /\ topups = <<>>
    /\ InitRequests

\* Initial states for the totals: one buyer, catalog prices and quantities
\* around the shipping threshold, a balance on either side of the largest
\* total that is tried.
CatalogPrices == {25 * Dollar, 50 * Dollar, 50 * Dollar + 100}
PricedCarts ==
    {<<Line("p1", q)>> : q \in 1..3} \cup {<<Line("p1", 1), Line("p2", 1)>>}
PricedBalances == {100 * Dollar, 110 * Dollar}

PriceInit ==
    /\ \E pr \in CatalogPrices :
         products = [InitProducts EXCEPT !["p1"].price = pr, !["p1"].stock = 3]
    /\ \E c \in PricedCarts : carts = [u \in Users |-> IF u = "u1" THEN c ELSE <<>>]
    /\ \E b \in PricedBalances :
         wallets = [InitWallets EXCEPT
                       !["u1"] = [balance |-> b, transactions |-> <<Tx("topup", b, 0)>>]]
    /\ orders = <<>>
    /\ topups = <<>>
    /\ InitRequests

----------------------------------------------------------------------------
\* POST /orders  (orders.js:11-156)

\* entry: address validation, then the cart query is issued
PostOrder(r, u, addr) ==
    /\ FreeCheckout(r)
    /\ Received < MaxRequests
    /\ IF AddressMissing(addr)
       THEN /\ co' = [co EXCEPT ![r] = CoDone([CoIdle EXCEPT !.user = u], 400, "address", "p1")]
            /\ before' = before
       ELSE /\ co' = [co EXCEPT ![r] = [CoIdle EXCEPT !.pc = "findCart", !.user = u, !.addr = addr]]
            /\ before' = Started
    /\ UNCHANGED <<db, ap, edits, guest>>

\* Cart.findOne, and the empty-cart check
FindCart(r) ==
    /\ co[r].pc = "findCart"
    /\ IF carts[co[r].user] = <<>>
       THEN /\ co' = [co EXCEPT ![r] = CoDone(@, 400, "empty", "p1")]
            /\ before' = NoSnapshot
       ELSE /\ co' = [co EXCEPT ![r].pc = "populate", ![r].items = carts[co[r].user]]
            /\ before' = before
    /\ UNCHANGED <<db, ap, edits, guest>>

\* populate of items.product, then the validation loop and the totals
PopulateCart(r) ==
    /\ co[r].pc = "populate"
    /\ LET items == Populated(co[r].items)
           bad == FirstBadLine(items, 1)
       IN IF bad # 0
          THEN /\ co' = [co EXCEPT ![r] = CoDone(@, 400, LineError(items[bad]), items[bad].product)]
               /\ before' = NoSnapshot
          ELSE /\ co' = [co EXCEPT ![r].pc = "findUser", ![r].items = items,
                                   ![r].total = Total(SumItems(items))]
               /\ before' = before
    /\ UNCHANGED <<db, ap, edits, guest>>

\* variant: the wallet is debited before the balance is compared
FindBuyer_DebitFirst(r) ==
    /\ co[r].pc = "findUser"
    /\ LET balance == wallets[co[r].user].balance
       IN IF balance < co[r].total
          THEN /\ co' = [co EXCEPT ![r] = CoDone(@, 400, "balance", "p1")]
               /\ before' = NoSnapshot
               /\ wallets' = [wallets EXCEPT ![co[r].user].balance = @ - co[r].total]
          ELSE /\ co' = [co EXCEPT ![r].pc = "saveOrder", ![r].balance = balance]
               /\ before' = before
               /\ wallets' = wallets
    /\ UNCHANGED <<products, carts, orders, topups, ap, edits, guest>>

\* variant: a balance equal to the total is rejected
FindBuyer_RejectEqual(r) ==
    /\ co[r].pc = "findUser"
    /\ LET balance == wallets[co[r].user].balance
       IN IF balance <= co[r].total
          THEN /\ co' = [co EXCEPT ![r] = CoDone(@, 400, "balance", "p1")]
               /\ before' = NoSnapshot
          ELSE /\ co' = [co EXCEPT ![r].pc = "saveOrder", ![r].balance = balance]
               /\ before' = before
    /\ UNCHANGED <<db, ap, edits, guest>>

\* User.findById, the balance check and new Order(...)
FindBuyer(r) ==
    /\ co[r].pc = "findUser"
    /\ LET balance == wallets[co[r].user].balance
       IN IF balance < co[r].total
          THEN /\ co' = [co EXCEPT ![r] = CoDone(@, 400, "balance", "p1")]
               /\ before' = NoSnapshot
          ELSE /\ co' = [co EXCEPT ![r].pc = "saveOrder", ![r].balance = balance]
               /\ before' = before
    /\ UNCHANGED <<db, ap, edits, guest>>

NewOrder(c, number) ==
    LET subtotal == SumItems(c.items)
    IN [orderNumber |-> number, user |-> c.user, items |-> OrderItems(c.items),
        shippingAddress |-> [f \in AddressFields |-> Trim(c.addr[f])],
        subtotal |-> subtotal, tax |-> Tax(subtotal), shipping |-> Shipping(subtotal),
        total |-> c.total, status |-> "pending", paymentStatus |-> "paid"]

\* order.save()
SaveOrder(r) ==
    /\ co[r].pc = "saveOrder"
    /\ orders' = Append(orders, NewOrder(co[r], Len(orders) + 1))
    /\ co' = [co EXCEPT ![r].pc = "saveUser", ![r].orderNumber = Len(orders) + 1]
    /\ UNCHANGED <<products, carts, wallets, topups, ap, before, edits, guest>>

\* variant: the debit leaves out tax and shipping
Debit_Subtotal(wallet, c) ==
    [balance |-> c.balance - SumItems(c.items),
     transactions |-> Append(wallet.transactions, Tx("purchase", 0 - c.total, c.orderNumber))]

\* variant: the transaction does not name the order
Debit_NoOrderRef(wallet, c) ==
    [balance |-> c.balance - c.total,
     transactions |-> Append(wallet.transactions, Tx("purchase", 0 - c.total, 0))]

\* variant: the debit is taken off the stored balance
Debit_Decrement(wallet, c) ==
    [balance |-> wallet.balance - c.total,
     transactions |-> Append(wallet.transactions, Tx("purchase", 0 - c.total, c.orderNumber))]

\* the debit on the loaded user document, written by user.save()
Debit(wallet, c) ==
    [balance |-> c.balance - c.total,
     transactions |-> Append(wallet.transactions, Tx("purchase", 0 - c.total, c.orderNumber))]

SaveBuyer(r) ==
    /\ co[r].pc = "saveUser"
    /\ wallets' = [wallets EXCEPT ![co[r].user] = Debit(@, co[r])]
    /\ co' = [co EXCEPT ![r].pc = "updateStock", ![r].i = 1]
    /\ UNCHANGED <<products, carts, orders, topups, ap, before, edits, guest>>

\* Product.findByIdAndUpdate(id, { $inc: { stock: -quantity } })
DecStock(product, quantity) == [product EXCEPT !.stock = @ - quantity]

\* one pass of the stock loop
UpdateStock(r) ==
    /\ co[r].pc = "updateStock"
    /\ LET item == co[r].items[co[r].i]
       IN products' = [products EXCEPT ![item.product] = DecStock(@, item.quantity)]
    /\ co' = [co EXCEPT ![r].i = @ + 1,
                        ![r].pc = IF co[r].i = Len(co[r].items) THEN "saveCart" ELSE "updateStock"]
    /\ UNCHANGED <<carts, wallets, orders, topups, ap, before, edits, guest>>

\* cart.items = []; cart.save()
SaveCart(r) ==
    /\ co[r].pc = "saveCart"
    /\ carts' = [carts EXCEPT ![co[r].user] = <<>>]
    /\ co' = [co EXCEPT ![r].pc = "populateOrder"]
    /\ UNCHANGED <<products, wallets, orders, topups, ap, before, edits, guest>>

\* order.populate(...) and the 201 response
Respond201(r) ==
    /\ co[r].pc = "populateOrder"
    /\ co' = [co EXCEPT ![r] = [CoDone(@, 201, "", "p1") EXCEPT !.orderNumber = co[r].orderNumber]]
    /\ before' = NoSnapshot
    /\ UNCHANGED <<db, ap, edits, guest>>

----------------------------------------------------------------------------
\* The second copy of the orders route (part_007:12-125).  It differs from
\* orders.js in the address validators, which trim before they test, and in
\* the populate, which selects 'name price stock' only.

\* body('shippingAddress.<f>').trim().isLength({ min: 1 })
AddressInvalid(addr) == \E f \in AddressFields : Trim(addr[f]) = ""

PostOrderLegacy(r, u, addr) ==
    /\ FreeCheckout(r)
    /\ Received < MaxRequests
    /\ IF AddressInvalid(addr)
       THEN /\ co' = [co EXCEPT ![r] = CoDone([CoIdle EXCEPT !.user = u], 400, "address", "p1")]
            /\ before' = before
       ELSE /\ co' = [co EXCEPT ![r] = [CoIdle EXCEPT !.pc = "findCart", !.user = u,
                                                      !.addr = [f \in AddressFields |-> Trim(addr[f])]]]
            /\ before' = Started
    /\ UNCHANGED <<db, ap, edits, guest>>

\* populate('items.product', 'name price stock'): the populated product has
\* no isActive field
PopulatedLegacy(items) ==
    [k \in 1..Len(items) |->
        [product  |-> items[k].product,
         quantity |-> items[k].quantity,
         price    |-> products[items[k].product].price,
         stock    |-> products[items[k].product].stock]]

\* item.product.isActive, undefined when the field was not selected
IsActive(item) == "isActive" \in DOMAIN item /\ item.isActive

RECURSIVE FirstBadLineLegacy(_, _)
FirstBadLineLegacy(items, k) ==
    IF k > Len(items) THEN 0
    ELSE IF ~IsActive(items[k]) \/ items[k].stock < items[k].quantity THEN k
    ELSE FirstBadLineLegacy(items, k + 1)

PopulateCartLegacy(r) ==
    /\ co[r].pc = "populate"
    /\ LET items == PopulatedLegacy(co[r].items)
           bad == FirstBadLineLegacy(items, 1)
       IN IF bad # 0
          THEN /\ co' = [co EXCEPT ![r] = CoDone(@, 400,
                                                 IF ~IsActive(items[bad]) THEN "unavailable"
                                                 ELSE "stock",
                                                 items[bad].product)]
               /\ before' = NoSnapshot
          ELSE /\ co' = [co EXCEPT ![r].pc = "findUser", ![r].items = items,
                                   ![r].total = Total(SumItems(items))]
               /\ before' = before
    /\ UNCHANGED <<db, ap, edits, guest>>

CoAwaiting ==
    {"findCart", "populate", "findUser", "saveOrder", "saveUser", "updateStock", "saveCart",
     "populateOrder"}

\* an awaited store call rejects: the catch block answers 500
CheckoutError(r) ==
    /\ co[r].pc \in CoAwaiting
    /\ co' = [co EXCEPT ![r] = CoDone(@, 500, "server", "p1")]
    /\ before' = NoSnapshot
    /\ UNCHANGED <<db, ap, edits, guest>>

----------------------------------------------------------------------------
\* Wallet routes

TopupAmounts == {0, 10 * Dollar}

\* new TopupRequest(...) with the schema defaults; processedBy stands for
\* processedBy and processedAt, which are set together
NewRequest(u, amount) ==
    [user |-> u, amount |-> amount, status |-> "pending", adminNotes |-> "", processedBy |-> ""]

\* POST /wallet/topup: amounts below 1 are rejected by the validator
SubmitTopup(u, amount) ==
    /\ Len(topups) < MaxTopups
    /\ amount >= 1
    /\ topups' = Append(topups, NewRequest(u, amount))
    /\ UNCHANGED <<products, carts, wallets, orders, co, ap, before, edits, guest>>

StatusInputs == {"approved", "rejected", "refunded"}

\* adminNotes of the body; "" also stands for a body without the field
NoteInputs == {"", "checked"}

\* PUT /wallet/admin/topup-requests/:id, entry: body validation, then the
\* request query is issued
PutTopup(a, id, status, notes) ==
    /\ FreeApproval(a)
    /\ Received < MaxRequests
    /\ IF status \notin {"approved", "rejected"}
       THEN /\ ap' = [ap EXCEPT ![a] = ApDone([ApIdle EXCEPT !.id = id, !.status = status],
                                              400, "validation")]
            /\ before' = before
       ELSE /\ ap' = [ap EXCEPT ![a] = [ApIdle EXCEPT !.pc = "findRequest", !.id = id,
                                                      !.status = status, !.notes = notes]]
            /\ before' = Started
    /\ UNCHANGED <<db, co, edits, guest>>

\* variant: the pending guard is missing
FindRequest_NoGuard(a) ==
    /\ ap[a].pc = "findRequest"
    /\ LET req == topups[ap[a].id]
       IN /\ ap' = [ap EXCEPT ![a].pc = IF ap[a].status = "approved" THEN "findUser"
                                        ELSE "saveRequest",
                              ![a].user = req.user, ![a].amount = req.amount]
          /\ before' = before
    /\ UNCHANGED <<db, co, edits, guest>>

\* variant: the wallet is credited whatever the new status is
FindRequest_CreditAlways(a) ==
    /\ ap[a].pc = "findRequest"
    /\ LET req == topups[ap[a].id]
       IN IF req.status # "pending"
          THEN /\ ap' = [ap EXCEPT ![a] = ApDone(@, 400, "processed")]
               /\ before' = NoSnapshot
          ELSE /\ ap' = [ap EXCEPT ![a].pc = "findUser",
                                   ![a].user = req.user, ![a].amount = req.amount]
               /\ before' = before
    /\ UNCHANGED <<db, co, edits, guest>>

\* TopupRequest.findById(...).populate('user') and the pending guard
FindRequest(a) ==
    /\ ap[a].pc = "findRequest"
    /\ LET req == topups[ap[a].id]
       IN IF req.status # "pending"
          THEN /\ ap' = [ap EXCEPT ![a] = ApDone(@, 400, "processed")]
               /\ before' = NoSnapshot
          ELSE /\ ap' = [ap EXCEPT ![a].pc = IF ap[a].status = "approved" THEN "findUser"
                                              ELSE "saveRequest",
                                   ![a].user = req.user, ![a].amount = req.amount]
               /\ before' = before
    /\ UNCHANGED <<db, co, edits, guest>>

\* User.findById(topupRequest.user._id)
FindPayee(a) ==
    /\ ap[a].pc = "findUser"
    /\ ap' = [ap EXCEPT ![a].pc = "saveUser", ![a].balance = wallets[ap[a].user].balance]
    /\ UNCHANGED <<db, co, before, edits, guest>>

\* variant: the save replaces the log by its newest entry
Credit_Rewrite(wallet, a) ==
    [balance |-> a.balance + a.amount,
     transactions |-> <<Tx("topup", a.amount, 0)>>]

\* the credit on the loaded user document, written by user.save()
Credit(wallet, a) ==
    [balance |-> a.balance + a.amount,
     transactions |-> Append(wallet.transactions, Tx("topup", a.amount, 0))]

SavePayee(a) ==
    /\ ap[a].pc = "saveUser"
    /\ wallets' = [wallets EXCEPT ![ap[a].user] = Credit(@, ap[a])]
    /\ ap' = [ap EXCEPT ![a].pc = "saveRequest"]
    /\ UNCHANGED <<products, carts, orders, topups, co, before, edits, guest>>

\* topupRequest.save() and the 200 response
SaveRequest(a) ==
    /\ ap[a].pc = "saveRequest"
    /\ topups' = [topups EXCEPT ![ap[a].id].status = ap[a].status,
                                ![ap[a].id].adminNotes = ap[a].notes,
                                ![ap[a].id].processedBy = "admin"]
    /\ ap' = [ap EXCEPT ![a] = ApDone(@, 200, "")]
    /\ before' = NoSnapshot
    /\ UNCHANGED <<products, carts, wallets, orders, co, edits, guest>>

ApAwaiting == {"findRequest", "findUser", "saveUser", "saveRequest"}

\* an awaited store call rejects: the catch block answers 500
TopupError(a) ==
    /\ ap[a].pc \in ApAwaiting
    /\ ap' = [ap EXCEPT ![a] = ApDone(@, 500, "server")]
    /\ before' = NoSnapshot
    /\ UNCHANGED <<db, co, edits, guest>>

----------------------------------------------------------------------------
\* Admin product routes (admin.js:599-682)

\* request bodies: a field that is absent from the body is undefined
StockInputs == {-1, 0, 2}
PriceInputs == {30 * Dollar}
ProductBodies ==
    {[f \in {"stock"} |-> s] : s \in StockInputs}
      \cup {[f \in {"price"} |-> pr] : pr \in PriceInputs}

BodyRejected(body) ==
    \/ "price" \in DOMAIN body /\ body["price"] < 0
    \/ "stock" \in DOMAIN body /\ body["stock"] < 0

\* variant: an update makes the product active again
UpdateProduct_Reactivate(p, body) ==
    /\ edits < MaxEdits
    /\ edits' = edits + 1
    /\ IF BodyRejected(body)
       THEN products' = products
       ELSE products' = [products EXCEPT
                ![p].price = IF "price" \in DOMAIN body THEN body["price"] ELSE @,
                ![p].stock = IF "stock" \in DOMAIN body THEN body["stock"] ELSE @,
                ![p].isActive = TRUE]
    /\ UNCHANGED <<carts, wallets, orders, topups, co, ap, before, guest>>

\* PUT /products/:id
UpdateProduct(p, body) ==
    /\ edits < MaxEdits
    /\ edits' = edits + 1
    /\ IF BodyRejected(body)
       THEN products' = products
       ELSE products' = [products EXCEPT
                ![p].price = IF "price" \in DOMAIN body THEN body["price"] ELSE @,
                ![p].stock = IF "stock" \in DOMAIN body THEN body["stock"] ELSE @]
    /\ UNCHANGED <<carts, wallets, orders, topups, co, ap, before, guest>>

\* DELETE /products/:id
DeleteProduct(p) ==
    /\ edits < MaxEdits
    /\ edits' = edits + 1
    /\ products' = [products EXCEPT ![p].isActive = FALSE]
    /\ UNCHANGED <<carts, wallets, orders, topups, co, ap, before, guest>>

----------------------------------------------------------------------------
\* Admin order route (admin.js:144-171)

\* the statuses of an order
OrderStatuses == {"pending", "processing", "shipped", "delivered", "cancelled"}

\* request bodies: a field that is absent from the body is undefined; a
\* body may carry fields the handler does not read
OrderBodies ==
    {[status |-> "shipped", trackingNumber |-> "T1"],
     [status |-> "", notes |-> "late"],
     [status |-> "", total |-> 0]}

\* variant: the whole body is handed to the update
UpdateData_WholeBody(body) == body

\* updateData: status when truthy, trackingNumber and notes when defined
UpdateData(body) ==
    [f \in {g \in {"status", "trackingNumber", "notes"} \cap DOMAIN body :
                g = "status" => body[g] # ""} |-> body[f]]

\* $set of the given fields on a stored document
SetFields(doc, update) ==
    [f \in DOMAIN doc \cup DOMAIN update |-> IF f \in DOMAIN update THEN update[f] ELSE doc[f]]

\* variant: cancelling an order refunds its total
UpdateOrder_Refund(k, body) ==
    /\ k \in 1..Len(orders)
    /\ orders' = [orders EXCEPT ![k] = SetFields(@, UpdateData(body))]
    /\ wallets' = IF "status" \in DOMAIN body /\ body["status"] = "cancelled"
                  THEN [wallets EXCEPT ![orders[k].user].balance = @ + orders[k].total]
                  ELSE wallets
    /\ UNCHANGED <<products, carts, topups, co, ap, before, edits, guest>>

\* PUT /orders/:id; an id that matches no order gets 404 and changes nothing
UpdateOrder(k, body) ==
    /\ k \in 1..Len(orders)
    /\ orders' = [orders EXCEPT ![k] = SetFields(@, UpdateData(body))]
    /\ UNCHANGED <<products, carts, wallets, topups, co, ap, before, edits, guest>>

----------------------------------------------------------------------------
\* Specifications

CheckoutStepWith(r, addrs) ==
    \/ \E u \in Users, addr \in addrs : PostOrder(r, u, addr)
    \/ FindCart(r)
    \/ PopulateCart(r)
    \/ FindBuyer(r)
    \/ SaveOrder(r)
    \/ SaveBuyer(r)
    \/ UpdateStock(r)
    \/ SaveCart(r)
    \/ Respond201(r)
    \/ CheckoutError(r)

CheckoutStep(r) == CheckoutStepWith(r, Addresses)

TopupStepWith(a, notes) ==
    \/ \E id \in 1..Len(topups), status \in StatusInputs, n \in notes : PutTopup(a, id, status, n)
    \/ FindRequest(a)
    \/ FindPayee(a)
    \/ SavePayee(a)
    \/ SaveRequest(a)
    \/ TopupError(a)

TopupStep(a) == TopupStepWith(a, {""})

AdminStep ==
    \/ \E p \in Products, body \in ProductBodies : UpdateProduct(p, body)
    \/ \E p \in Products : DeleteProduct(p)

Submit == \E u \in Users, amount \in TopupAmounts : SubmitTopup(u, amount)

Next ==
    \/ \E r \in Checkouts : CheckoutStep(r)
    \/ \E a \in Approvals : TopupStep(a)
    \/ AdminStep
    \/ Submit

Spec == Init /\ [][Next]_vars

\* Requests served one at a time: a request is received, and the admin and
\* submission routes run, only while no other request is in progress.
SeqNext ==
    \/ Quiet /\ Next
    \/ ~Quiet /\ \E r \in Checkouts : co[r].pc # "idle" /\ CheckoutStep(r)
    \/ ~Quiet /\ \E a \in Approvals : ap[a].pc # "idle" /\ TopupStep(a)

SeqSpec == Init /\ [][SeqNext]_vars

\* Checkouts alone, one at a time, over the priced initial states.
PriceNext ==
    \/ Quiet /\ \E r \in Checkouts : CheckoutStep(r)
    \/ ~Quiet /\ \E r \in Checkouts : co[r].pc # "idle" /\ CheckoutStep(r)

PriceSpec == PriceInit /\ [][PriceNext]_vars

\* Checkouts alone, one at a time, with every kind of address.
AddressNext ==
    \/ Quiet /\ \E r \in Checkouts : CheckoutStepWith(r, AllAddresses)
    \/ ~Quiet /\ \E r \in Checkouts : co[r].pc # "idle" /\ CheckoutStepWith(r, AllAddresses)

AddressSpec == Init /\ [][AddressNext]_vars

\* The second copy of the orders route with the admin product routes, one
\* request at a time.  No populated line has isActive, so no request gets
\* past the line checks; the steps after them are the ones of orders.js and
\* are never taken here.
LegacyNext ==
    \/ Quiet /\ \E r \in Checkouts, u \in Users, addr \in AllAddresses : PostOrderLegacy(r, u, addr)
    \/ ~Quiet /\ \E r \in Checkouts : FindCart(r)
    \/ ~Quiet /\ \E r \in Checkouts : PopulateCartLegacy(r)
    \/ ~Quiet /\ \E r \in Checkouts : CheckoutError(r)
    \/ Quiet /\ AdminStep

LegacySpec == Init /\ [][LegacyNext]_vars

\* Order administration: checkouts one at a time, with the admin product
\* and order routes between them.
OrderNext ==
    \/ Quiet /\ \E r \in Checkouts : CheckoutStep(r)
    \/ ~Quiet /\ \E r \in Checkouts : co[r].pc # "idle" /\ CheckoutStep(r)
    \/ Quiet /\ AdminStep
    \/ Quiet /\ \E k \in 1..MaxRequests, body \in OrderBodies : UpdateOrder(k, body)

OrderSpec == Init /\ [][OrderNext]_vars

\* The order workflow: checkouts one at a time, and between them order
\* updates with every status.
StatusBodies == {[f \in {"status"} |-> st] : st \in OrderStatuses}

WorkflowNext ==
    \/ Quiet /\ \E r \in Checkouts : CheckoutStep(r)
    \/ ~Quiet /\ \E r \in Checkouts : co[r].pc # "idle" /\ CheckoutStep(r)
    \/ Quiet /\ \E k \in 1..MaxRequests, body \in StatusBodies : UpdateOrder(k, body)

WorkflowSpec == Init /\ [][WorkflowNext]_vars

\* The wallet writers, interleaved at their awaits: checkouts, top-up
\* submissions and top-up reviews.
WalletNext ==
    \/ \E r \in Checkouts : CheckoutStep(r)
    \/ \E a \in Approvals : TopupStep(a)
    \/ Submit

WalletSpec == Init /\ [][WalletNext]_vars

\* The catalog after DELETE /products/p2: checkouts one at a time, with the
\* admin product routes between them.
DeletedCarts ==
    InitCarts \cup {[u \in Users |-> IF u = "u1" THEN <<Line("p1", 1), Line("p2", 1)>> ELSE <<>>]}

DeletedInit ==
    /\ products = [InitProducts EXCEPT !["p2"] = [@ EXCEPT !.isActive = FALSE]]
    /\ carts \in DeletedCarts
    /\ wallets = InitWallets
    /\ orders = <<>>
    /\ topups = <<>>
    /\ InitRequests

CatalogNext ==
    \/ Quiet /\ \E r \in Checkouts : CheckoutStep(r)
    \/ ~Quiet /\ \E r \in Checkouts : co[r].pc # "idle" /\ CheckoutStep(r)
    \/ Quiet /\ AdminStep

CatalogSpec == DeletedInit /\ [][CatalogNext]_vars

\* The guest cart alone.
AddQuantities == {1, 2}
SetQuantities == {0, 3}

GuestInit ==
    /\ products = InitProducts
    /\ carts = [u \in Users |-> <<>>]
    /\ wallets = InitWallets
    /\ orders = <<>>
    /\ topups = <<>>
    /\ InitRequests

GuestNext ==
    \/ \E p \in Products, q \in AddQuantities : addToCart(p, q)
    \/ \E p \in Products, q \in SetQuantities : updateQuantity(p, q)
    \/ \E p \in Products : removeFromCart(p)
    \/ clearCart
    \/ Reload

GuestSpec == GuestInit /\ [][GuestNext]_vars

\* The top-up review workflow alone, one call at a time, with and without
\* admin notes.
ReviewNext ==
    \/ Quiet /\ Submit
    \/ Quiet /\ \E a \in Approvals : TopupStepWith(a, NoteInputs)
    \/ ~Quiet /\ \E a \in Approvals : ap[a].pc # "idle" /\ TopupStepWith(a, NoteInputs)

ReviewSpec == Init /\ [][ReviewNext]_vars

----------------------------------------------------------------------------
\* Vocabulary of the properties

BeforeProducts == before[1]
BeforeCarts == before[2]
BeforeWallets == before[3]
BeforeOrders == before[4]
BeforeTopups == before[5]

\* the step in which checkout r / approval a sends its response
CheckoutEnds(r) == co[r].pc # "done" /\ co'[r].pc = "done"
ApprovalEnds(a) == ap[a].pc # "done" /\ ap'[a].pc = "done"

\* the collections as they were when the request that ends in this step
\* was received
AtStart(pc) == IF pc = "idle" THEN db ELSE before

CoFinished(r) == co[r].pc = "done"
ApFinished(a) == ap[a].pc = "done"

PurchasesOf(u, k) ==
    {j \in 1..Len(wallets[u].transactions) :
        /\ wallets[u].transactions[j].type = "purchase"
        /\ wallets[u].transactions[j].order = k}

\* quantity of product p in an order's item list
RECURSIVE Ordered(_, _)
Ordered(items, p) ==
    IF items = <<>> THEN 0
    ELSE (IF items[1].product = p THEN items[1].quantity ELSE 0) + Ordered(Tail(items), p)

----------------------------------------------------------------------------
\* C1: two checkouts by different users against one product with stock 1,
\* each cart asking for quantity 1 and each balance sufficient, in any
\* interleaving: exactly one is answered 201, the other is rejected for
\* insufficient stock, and the stock ends at 0.
C1_ExactlyOneCheckoutWins ==
    \A r1, r2 \in Checkouts :
        ( /\ r1 < r2
          /\ CoFinished(r1) /\ CoFinished(r2)
          /\ co[r1].user # co[r2].user
          /\ edits = 0
          /\ {co[r1].error, co[r2].error} \cap {"address", "empty", "server"} = {} )
        => /\ \E w \in {r1, r2} : \E l \in {r1, r2} :
                /\ w # l
                /\ co[w].status = 201
                /\ co[l].status = 400 /\ co[l].error = "stock"
           /\ products["p1"].stock = 0

\* C2: stock is never negative, whatever the interleaving of checkouts and
\* admin stock edits.
C2_StockNeverNegative == \A p \in Products : products[p].stock >= 0

\* C3: every wallet's balance equals the sum of the amounts in its
\* transaction log.
C3_BalanceIsLedgerSum ==
    \A u \in Users : wallets[u].balance = SumAmounts(wallets[u].transactions)

\* C4: while no checkout is in progress, orders and purchase debits
\* correspond one to one: each stored order has exactly one purchase
\* transaction of amount -total in its owner's log, and each purchase
\* transaction names a stored order of that user.
C4_OrdersMatchDebits ==
    (\A r \in Checkouts : co[r].pc \in {"idle", "done"})
    => /\ \A k \in 1..Len(orders) :
            /\ orders[k].paymentStatus = "paid"
            /\ Cardinality(PurchasesOf(orders[k].user, k)) = 1
            /\ \A j \in PurchasesOf(orders[k].user, k) :
                   wallets[orders[k].user].transactions[j].amount = 0 - orders[k].total
       /\ \A u \in Users : \A j \in 1..Len(wallets[u].transactions) :
            LET tx == wallets[u].transactions[j]
            IN tx.type = "purchase"
               => tx.order \in 1..Len(orders) /\ orders[tx.order].user = u

\* C5: a checkout that is answered with a failure (400 or 500) leaves
\* orders, wallets, stock and carts as they were when it was received.
C5_FailedCheckoutChangesNothing ==
    [][\A r \in Checkouts :
          (CheckoutEnds(r) /\ co'[r].status # 201) => db' = AtStart(co[r].pc)]_vars

\* C6: a checkout rejected by a precondition (400) leaves orders, stock,
\* wallets and carts as they were when it was received.
C6_RejectedCheckoutChangesNothing ==
    [][\A r \in Checkouts :
          (CheckoutEnds(r) /\ co'[r].status = 400) => db' = AtStart(co[r].pc)]_vars

C6_Witness ==
    \E r \in Checkouts :
        /\ CoFinished(r) /\ co[r].status = 400 /\ co[r].error = "balance"
        /\ orders = <<>>

\* C7: when a checkout is answered 201, every product's stock is its stock
\* at the start of the request less the quantity ordered, the buyer's
\* balance is the balance at the start less the order's total, and the
\* buyer's cart is empty.
C7_SuccessfulCheckoutEffects ==
    [][\A r \in Checkouts :
          (CheckoutEnds(r) /\ co'[r].status = 201)
          => LET order == orders'[co[r].orderNumber]
                 u == co[r].user
             IN /\ \A p \in Products :
                      products'[p].stock = BeforeProducts[p].stock - Ordered(order.items, p)
                /\ wallets'[u].balance = BeforeWallets[u].balance - order.total
                /\ carts'[u] = <<>>]_vars

C7_Witness ==
    \E r \in Checkouts :
        /\ CoFinished(r) /\ co[r].status = 201
        /\ Len(orders[co[r].orderNumber].items) = 2

\* C8: approving a pending request credits the wallet with the amount once
\* and appends one topup transaction; a call on a request that is no longer
\* pending is never answered 200, is answered "already processed" (400)
\* unless the store call itself rejects, and leaves the wallets untouched.
C8_SecondApprovalRejected ==
    [][\A a \in Approvals :
          (ApprovalEnds(a) /\ ap[a].pc # "idle")
          => LET id == ap[a].id
                 u == BeforeTopups[id].user
                 amount == BeforeTopups[id].amount
             IN /\ BeforeTopups[id].status # "pending"
                   => /\ ap'[a].code \in {400, 500}
                      /\ ap'[a].code = 400 => ap'[a].error = "processed"
                      /\ wallets' = BeforeWallets
                      /\ topups' = BeforeTopups
                /\ (ap'[a].code = 200 /\ ap[a].status = "approved")
                   => /\ BeforeTopups[id].status = "pending"
                      /\ topups'[id].status = "approved"
                      /\ wallets' = [BeforeWallets EXCEPT
                             ![u] = [balance |-> @.balance + amount,
                                     transactions |->
                                         Append(@.transactions, Tx("topup", amount, 0))]]]_vars

C8_Witness ==
    \E a1, a2 \in Approvals :
        /\ a1 # a2 /\ ap[a1].id = ap[a2].id
        /\ ApFinished(a1) /\ ap[a1].code = 200 /\ ap[a1].status = "approved"
        /\ ApFinished(a2) /\ ap[a2].code = 400 /\ ap[a2].error = "processed"
        /\ ap[a2].status = "approved"

\* C9: of two approval calls for the same pending request, in any
\* interleaving, at most one is answered 200 and the wallet receives one
\* topup transaction and one credit for the request.
C9_OneApprovalPerRequest ==
    \A a1, a2 \in Approvals :
        ( /\ a1 < a2 /\ ap[a1].id = ap[a2].id
          /\ ApFinished(a1) /\ ApFinished(a2)
          /\ ap[a1].status = "approved" /\ ap[a2].status = "approved"
          /\ ap[a1].code # 500 /\ ap[a2].code # 500
          /\ \A r \in Checkouts : co[r].pc = "idle" )
        => LET u == topups[ap[a1].id].user
           IN /\ ~(ap[a1].code = 200 /\ ap[a2].code = 200)
              /\ Len(wallets[u].transactions) = Len(InitWallets[u].transactions) + 1
              /\ wallets[u].balance = InitBalance[u] + topups[ap[a1].id].amount

\* C10: when approvals of two different pending requests of one user both
\* complete, in any interleaving, the balance has grown by both amounts and
\* two topup transactions have been appended.
C10_BothCreditsApply ==
    \A a1, a2 \in Approvals :
        ( /\ a1 < a2 /\ ap[a1].id # ap[a2].id
          /\ ApFinished(a1) /\ ApFinished(a2)
          /\ ap[a1].status = "approved" /\ ap[a2].status = "approved"
          /\ ap[a1].code = 200 /\ ap[a2].code = 200
          /\ topups[ap[a1].id].user = topups[ap[a2].id].user
          /\ \A r \in Checkouts : co[r].pc = "idle" )
        => LET u == topups[ap[a1].id].user
           IN /\ wallets[u].balance
                    = InitBalance[u] + topups[ap[a1].id].amount + topups[ap[a2].id].amount
              /\ Len(wallets[u].transactions) = Len(InitWallets[u].transactions) + 2

\* number of topup transactions appended to u's log since the initial state
Credits(u) ==
    Cardinality({j \in 1..Len(wallets[u].transactions) :
                    wallets[u].transactions[j].type = "topup"})
      - Len(InitWallets[u].transactions)

ApprovedOf(u) == {id \in 1..Len(topups) : topups[id].user = u /\ topups[id].status = "approved"}

RECURSIVE SumApproved(_, _)
SumApproved(u, id) ==
    IF id = 0 THEN 0
    ELSE (IF id \in ApprovedOf(u) THEN topups[id].amount ELSE 0) + SumApproved(u, id - 1)

\* C11: while no approval call is in progress, a request is approved if and
\* only if its amount was credited once: every user has as many topup
\* credits as approved requests, and the balance has grown by the approved
\* amounts, also when topupRequest.save fails after user.save.
C11_ApprovedIffCredited ==
    (\A a \in Approvals : ap[a].pc \in {"idle", "done"})
    => \A u \in Users :
          /\ Credits(u) = Cardinality(ApprovedOf(u))
          /\ wallets[u].balance = InitBalance[u] + SumApproved(u, Len(topups))

\* C12: a call that rejects a request leaves every wallet as it was; of the
\* request only status, adminNotes and processedBy/processedAt change, and
\* no other request, product, cart or order changes.
C12_RejectionLeavesWallet ==
    [][\A a \in Approvals :
          (ApprovalEnds(a) /\ ap[a].pc # "idle" /\ ap[a].status = "rejected")
          => /\ wallets' = BeforeWallets
             /\ <<products', carts', orders'>> = <<BeforeProducts, BeforeCarts, BeforeOrders>>
             /\ Len(topups') = Len(BeforeTopups)
             /\ \A id \in 1..Len(topups') :
                   /\ topups'[id].user = BeforeTopups[id].user
                   /\ topups'[id].amount = BeforeTopups[id].amount
                   /\ id # ap[a].id => topups'[id] = BeforeTopups[id]
             /\ ap'[a].code = 200
                => /\ BeforeTopups[ap[a].id].status = "pending"
                   /\ topups'[ap[a].id].status = "rejected"
                   /\ topups'[ap[a].id].adminNotes = ap[a].notes]_vars

C12_Witness ==
    \E a \in Approvals :
        /\ ApFinished(a) /\ ap[a].code = 200 /\ ap[a].status = "rejected"
        /\ topups[ap[a].id].status = "rejected"
        /\ topups[ap[a].id].adminNotes = "checked"
        /\ topups[ap[a].id].processedBy = "admin"

\* sum of price * quantity over an order's items, by index
RECURSIVE LineSum(_, _)
LineSum(items, k) ==
    IF k = 0 THEN 0 ELSE items[k].price * items[k].quantity + LineSum(items, k - 1)

\* C13: every stored order has total = subtotal + tax + shipping and
\* subtotal = the sum of price * quantity over its captured items.
C13_OrderTotalsAddUp ==
    \A k \in 1..Len(orders) :
        /\ orders[k].total = orders[k].subtotal + orders[k].tax + orders[k].shipping
        /\ orders[k].subtotal = LineSum(orders[k].items, Len(orders[k].items))

C13_Witness ==
    \E k \in 1..Len(orders) : Len(orders[k].items) = 2 /\ orders[k].tax > 0

\* C14: shipping is 0 when the subtotal is above 50 and 10 otherwise; at
\* exactly 50.00 it is 10 and at 50.01 it is 0.  Stated of stored orders and
\* of the total computed by every checkout that passed the line checks.
C14_ShippingRule ==
    /\ \A k \in 1..Len(orders) :
          /\ orders[k].subtotal > 50 * Dollar => orders[k].shipping = 0
          /\ orders[k].subtotal <= 50 * Dollar => orders[k].shipping = 10 * Dollar
          /\ orders[k].subtotal = 500000 => orders[k].shipping = 100000
          /\ orders[k].subtotal = 500100 => orders[k].shipping = 0
    /\ \A r \in Checkouts :
          co[r].pc \in {"findUser", "saveOrder"}
          => LET sub == LineSum(co[r].items, Len(co[r].items))
             IN co[r].total - sub - (sub * 8) \div 100
                  = IF sub > 50 * Dollar THEN 0 ELSE 10 * Dollar

C14_Witness ==
    \E k \in 1..Len(orders) : orders[k].subtotal = 50 * Dollar /\ orders[k].shipping = 10 * Dollar

\* C15: the stored tax is exactly 8% of the subtotal, unrounded; a subtotal
\* of 100.00 gives a tax of 8.00.
C15_TaxIsEightPercent ==
    \A k \in 1..Len(orders) :
        /\ orders[k].tax * 100 = orders[k].subtotal * 8
        /\ orders[k].subtotal = 100 * Dollar => orders[k].tax = 8 * Dollar

C15_Witness ==
    \E k \in 1..Len(orders) : orders[k].subtotal = 100 * Dollar /\ orders[k].tax = 8 * Dollar

\* C16: a checkout answered 201 has appended exactly one transaction to the
\* buyer's log, a purchase of amount -total that names the new order; with
\* price 25.00, quantity 3 and balance 100.00 the order has subtotal 75.00,
\* tax 6.00, shipping 0 and total 81.00, the balance becomes 19.00 and the
\* stock falls by 3.
C16_OnePurchaseTransaction ==
    [][\A r \in Checkouts :
          (CheckoutEnds(r) /\ co'[r].status = 201)
          => LET order == orders'[co[r].orderNumber]
                 u == co[r].user
             IN /\ wallets'[u].transactions
                     = Append(BeforeWallets[u].transactions,
                              [type |-> "purchase", amount |-> 0 - order.total,
                               order |-> order.orderNumber])
                /\ ( /\ Len(order.items) = 1
                     /\ order.items[1].price = 25 * Dollar
                     /\ order.items[1].quantity = 3
                     /\ BeforeWallets[u].balance = 100 * Dollar )
                   => /\ order.subtotal = 75 * Dollar
                      /\ order.tax = 6 * Dollar
                      /\ order.shipping = 0
                      /\ order.total = 81 * Dollar
                      /\ wallets'[u].balance = 19 * Dollar
                      /\ products'[order.items[1].product].stock
                           = BeforeProducts[order.items[1].product].stock - 3]_vars

C16_Witness ==
    \E r \in Checkouts :
        /\ CoFinished(r) /\ co[r].status = 201
        /\ orders[co[r].orderNumber].total = 81 * Dollar
        /\ wallets[co[r].user].balance = 19 * Dollar
        /\ Len(wallets[co[r].user].transactions) = 2

\* the cart, stock, flags and balance found when the request was received
\* meet every precondition of the checkout
LineOk(line) ==
    /\ BeforeProducts[line.product].isActive
    /\ BeforeProducts[line.product].stock >= line.quantity

RECURSIVE CartSum(_, _)
CartSum(cart, k) ==
    IF k = 0 THEN 0
    ELSE BeforeProducts[cart[k].product].price * cart[k].quantity + CartSum(cart, k - 1)

ValidAtStart(u) ==
    LET cart == BeforeCarts[u]
        sub == CartSum(cart, Len(cart))
    IN /\ cart # <<>>
       /\ \A k \in 1..Len(cart) : LineOk(cart[k])
       /\ BeforeWallets[u].balance
            >= sub + (sub * 8) \div 100 + (IF sub > 50 * Dollar THEN 0 ELSE 10 * Dollar)

\* C17: a request with a complete address, a non-empty cart whose products
\* are all active with stock >= quantity, and a balance >= the total is not
\* rejected (400); unless a store call rejects it is answered 201 and its
\* order is stored.
C17_ValidCheckoutSucceeds ==
    [][\A r \in Checkouts :
          (CheckoutEnds(r) /\ co[r].pc # "idle" /\ ValidAtStart(co[r].user))
          => /\ co'[r].status \in {201, 500}
             /\ co'[r].status = 201 => Len(orders') = Len(BeforeOrders) + 1]_vars

\* C18 as claimed: when some cart line's product is inactive the request is
\* rejected with the unavailable-product error naming an inactive product,
\* whatever the earlier lines are; the stock error is returned only when
\* every line's product is active.
C18_AvailabilityBeforeStock ==
    [][\A r \in Checkouts :
          (CheckoutEnds(r) /\ co[r].pc # "idle" /\ co'[r].status = 400
             /\ \E k \in 1..Len(BeforeCarts[co[r].user]) :
                   ~BeforeProducts[BeforeCarts[co[r].user][k].product].isActive)
          => /\ co'[r].error = "unavailable"
             /\ ~BeforeProducts[co'[r].product].isActive]_vars

\* C18 as amended: the lines are checked one by one in cart order, each for
\* availability and then for stock; the request is rejected at the first
\* line that fails either, with the unavailable error if that line's
\* product is inactive and the stock error otherwise.
C18_FirstFailingLineDecides ==
    [][\A r \in Checkouts :
          (CheckoutEnds(r) /\ co[r].pc # "idle")
          => LET cart == BeforeCarts[co[r].user]
                 bad == {k \in 1..Len(cart) : ~LineOk(cart[k])}
             IN /\ (co'[r].status = 400 /\ co'[r].error \in {"unavailable", "stock"})
                   => \E k \in bad :
                         /\ \A j \in bad : k <= j
                         /\ co'[r].product = cart[k].product
                         /\ co'[r].error
                              = IF ~BeforeProducts[cart[k].product].isActive
                                THEN "unavailable" ELSE "stock"
                /\ bad # {} => co'[r].error \in {"unavailable", "stock", "server"}
                /\ (bad = {} /\ cart # <<>>) => co'[r].error \notin {"unavailable", "stock"}]_vars

C18_Witness ==
    \E r \in Checkouts :
        /\ CoFinished(r) /\ co[r].status = 400 /\ co[r].error = "stock"
        /\ \E k \in 1..Len(carts[co[r].user]) : ~products[carts[co[r].user][k].product].isActive

\* C19: a request with an address field that is empty after trimming gets
\* no further than the address validation, and no stored order has an empty
\* shipping-address field.
C19_BlankAddressRejected ==
    /\ \A r \in Checkouts :
          co[r].pc \notin {"idle", "done"} => \A f \in AddressFields : Trim(co[r].addr[f]) # ""
    /\ \A k \in 1..Len(orders) : \A f \in AddressFields : orders[k].shippingAddress[f] # ""

\* the fields of an order that an operator may change
OperatorFields == {"status", "trackingNumber", "notes"}

\* C20: no step changes anything of a stored order but its status,
\* trackingNumber and notes: the item list with its captured prices, the
\* subtotal, tax, shipping and total stay as they were at creation.
C20_OrderContentsImmutable ==
    [][\A k \in 1..Len(orders) :
          /\ k <= Len(orders')
          /\ DOMAIN orders'[k] \ OperatorFields = DOMAIN orders[k] \ OperatorFields
          /\ \A f \in DOMAIN orders[k] \ OperatorFields : orders'[k][f] = orders[k][f]]_vars

C20_Witness ==
    \E k \in 1..Len(orders) :
        /\ orders[k].status # "pending"
        /\ "trackingNumber" \in DOMAIN orders[k]
        /\ \E i \in 1..Len(orders[k].items) :
              products[orders[k].items[i].product].price # orders[k].items[i].price

\* position of a status in the workflow
StatusRank(st) ==
    CASE st = "pending" -> 1
      [] st = "processing" -> 2
      [] st = "shipped" -> 3
      [] st = "delivered" -> 4
      [] st = "cancelled" -> 5

\* C21: no step moves an order's status backwards in the workflow
\* pending -> processing -> shipped -> delivered, or out of cancelled: a
\* status that changes moves to a later stage or to cancelled.
C21_StatusOnlyMovesForward ==
    [][\A k \in 1..Len(orders) :
          orders'[k].status # orders[k].status
          => /\ orders[k].status # "cancelled"
             /\ StatusRank(orders'[k].status) > StatusRank(orders[k].status)]_vars

\* C27: a step that changes an order's status to cancelled leaves every
\* product's stock and every wallet (balance and transactions) as it was.
C27_CancelHasNoSideEffects ==
    [][\A k \in 1..Len(orders) :
          (orders[k].status # "cancelled" /\ orders'[k].status = "cancelled")
          => /\ \A p \in Products : products'[p].stock = products[p].stock
             /\ wallets' = wallets]_vars

C27_Witness ==
    \E k \in 1..Len(orders) :
        /\ orders[k].status = "cancelled"
        /\ \E p \in Products : Ordered(orders[k].items, p) > 0
                                 /\ products[p].stock < InitProducts[p].stock
        /\ wallets[orders[k].user].balance < InitBalance[orders[k].user]

\* C22: in every reachable state every user's wallet balance is >= 0.
C22_BalanceNeverNegative == \A u \in Users : wallets[u].balance >= 0

\* two checkouts of one user both answered 201 although the balance covered
\* one of them only
C22_Witness ==
    \E r1, r2 \in Checkouts :
        /\ r1 # r2 /\ co[r1].user = co[r2].user
        /\ CoFinished(r1) /\ co[r1].status = 201
        /\ CoFinished(r2) /\ co[r2].status = 201
        /\ Len(orders) = 2 /\ orders[1].user = orders[2].user
        /\ orders[1].total + orders[2].total > InitBalance[co[r1].user]
        /\ topups = <<>>

IsPrefix(s, t) == Len(s) <= Len(t) /\ \A j \in 1..Len(s) : t[j] = s[j]

\* C23: across every step the previous transaction sequence of every user
\* is a prefix of the new one: no entry is removed, reordered or modified.
C23_LogAppendOnly ==
    [][\A u \in Users : IsPrefix(wallets[u].transactions, wallets'[u].transactions)]_vars

\* a log that has grown by a purchase and by a top-up
C23_Witness ==
    \E u \in Users :
        LET log == wallets[u].transactions
            new == {j \in 1..Len(log) : j > Len(InitWallets[u].transactions)}
        IN /\ \E j \in new : log[j].type = "purchase"
           /\ \E j \in new : log[j].type = "topup"

\* some line of the cart found at the start is of an inactive product
InactiveInCart(u) ==
    \E k \in 1..Len(BeforeCarts[u]) : ~BeforeProducts[BeforeCarts[u][k].product].isActive

StartTotal(u) ==
    LET sub == CartSum(BeforeCarts[u], Len(BeforeCarts[u]))
    IN sub + (sub * 8) \div 100 + (IF sub > 50 * Dollar THEN 0 ELSE 10 * Dollar)

\* C25: for a request with a complete address and a non-empty cart whose
\* lines are all active with quantity <= stock, the insufficient-balance
\* error is returned exactly when total > balance (a store failure aside);
\* a request answered 201 leaves balance - total and stock - quantity, so
\* total = balance leaves 0 and quantity = stock leaves 0.
C25_BoundariesAccepted ==
    [][\A r \in Checkouts :
          (/\ CheckoutEnds(r) /\ co[r].pc # "idle"
           /\ BeforeCarts[co[r].user] # <<>>
           /\ \A k \in 1..Len(BeforeCarts[co[r].user]) : LineOk(BeforeCarts[co[r].user][k]))
          => LET u == co[r].user
             IN /\ co'[r].error = "balance" => StartTotal(u) > BeforeWallets[u].balance
                /\ StartTotal(u) > BeforeWallets[u].balance => co'[r].error \in {"balance", "server"}
                /\ StartTotal(u) <= BeforeWallets[u].balance => co'[r].status \in {201, 500}
                /\ co'[r].status = 201
                     => /\ wallets'[u].balance = BeforeWallets[u].balance - StartTotal(u)
                        /\ \A p \in Products :
                              products'[p].stock
                                = BeforeProducts[p].stock - Ordered(BeforeCarts[u], p)]_vars

\* a checkout answered 201 that took the whole balance and the whole stock
C25_Witness ==
    \E r \in Checkouts :
        /\ CoFinished(r) /\ co[r].status = 201
        /\ wallets[co[r].user].balance = 0
        /\ \E p \in Products :
              /\ products[p].stock = 0
              /\ Ordered(orders[co[r].orderNumber].items, p) = InitProducts[p].stock

\* C26: the order stored by a checkout has, line by line, the products and
\* quantities of the cart with the catalog prices found when the request
\* started, and their sum as subtotal; no later step changes the items or
\* the subtotal of a stored order.
C26_CatalogPriceCaptured ==
    [][/\ Len(orders') = Len(orders) + 1
            => LET o == orders'[Len(orders')]
                   cart == BeforeCarts[o.user]
               IN /\ Len(o.items) = Len(cart)
                  /\ \A i \in 1..Len(cart) :
                        /\ o.items[i].product = cart[i].product
                        /\ o.items[i].quantity = cart[i].quantity
                        /\ o.items[i].price = BeforeProducts[cart[i].product].price
                  /\ o.subtotal = CartSum(cart, Len(cart))
       /\ \A k \in 1..Len(orders) :
             /\ orders'[k].items = orders[k].items
             /\ orders'[k].subtotal = orders[k].subtotal]_vars

\* an order at a price that was edited after the line was in the cart
C26_Witness ==
    \E k \in 1..Len(orders) : \E i \in 1..Len(orders[k].items) :
        LET item == orders[k].items[i]
        IN /\ item.price # InitProducts[item.product].price
           /\ item.price = products[item.product].price
           /\ orders[k].subtotal = LineSum(orders[k].items, Len(orders[k].items))

\* C28: of an approve call and a reject call for the same request that have
\* both completed without a store failure, exactly one was answered 200, and
\* the wallet holds a topup credit for the request if and only if the
\* request's stored status is approved.
C28_ApproveRejectExclusive ==
    \A a1, a2 \in Approvals :
        ( /\ ap[a1].id = ap[a2].id /\ Len(topups) = 1
          /\ ApFinished(a1) /\ ApFinished(a2)
          /\ ap[a1].status = "approved" /\ ap[a2].status = "rejected"
          /\ ap[a1].code # 500 /\ ap[a2].code # 500 )
        => LET u == topups[ap[a1].id].user
           IN /\ (ap[a1].code = 200) # (ap[a2].code = 200)
              /\ (Credits(u) = 1) <=> (topups[ap[a1].id].status = "approved")
              /\ Credits(u) \in {0, 1}

\* sum of the totals of u's orders among the first k orders
RECURSIVE OrderTotals(_, _)
OrderTotals(u, k) ==
    IF k = 0 THEN 0
    ELSE (IF orders[k].user = u THEN orders[k].total ELSE 0) + OrderTotals(u, k - 1)

\* C29: when every checkout has completed without a store failure (and no
\* top-up was submitted), each user's cart content has produced at most one
\* order and the balance has dropped by the totals of the user's orders.
C29_OneOrderPerCart ==
    ( /\ \A r \in Checkouts : co[r].pc \in {"idle", "done"} /\ co[r].status # 500
      /\ topups = <<>> )
    => \A u \in Users :
          /\ Cardinality({k \in 1..Len(orders) : orders[k].user = u}) <= 1
          /\ wallets[u].balance = InitBalance[u] - OrderTotals(u, Len(orders))

\* lines of product p in a cart, and their quantities added up
LinesOf(items, p) == Cardinality({k \in 1..Len(items) : items[k].product = p})

RECURSIVE QuantityOf(_, _)
QuantityOf(items, p) ==
    IF items = <<>> THEN 0
    ELSE (IF items[1].product = p THEN items[1].quantity ELSE 0) + QuantityOf(Tail(items), p)

\* the lines of products other than p, in order
Others(items, p) ==
    LET Other(item) == item.product # p
    IN SelectSeq(items, Other)

\* C30: after every call the guest cart holds at most one line per product;
\* addToCart raises the quantity of the product's line by the added amount
\* (a new line only when there was none) and leaves the other lines alone,
\* removeFromCart removes the product's line and nothing else, clearCart
\* leaves the cart empty.
C30_GuestCartOneLinePerProduct ==
    [][LET old == guest.items
           new == guest'.items
           p == guest'.last.product
           q == guest'.last.quantity
       IN /\ \A x \in Products : LinesOf(new, x) <= 1
          /\ guest'.last.op = "add"
               => /\ QuantityOf(new, p) = QuantityOf(old, p) + q
                  /\ Len(new) = Len(old) + (IF LinesOf(old, p) = 0 THEN 1 ELSE 0)
                  /\ Others(new, p) = Others(old, p)
          /\ guest'.last.op = "remove"
               => /\ LinesOf(new, p) = 0
                  /\ new = Others(old, p)
          /\ guest'.last.op = "clear" => new = <<>>]_vars

\* a second addToCart of a product has raised its line, next to another line
C30_Witness ==
    /\ guest.last.op = "add"
    /\ Len(guest.items) = 2
    /\ QuantityOf(guest.items, guest.last.product) > guest.last.quantity

====
